---- MODULE Spec2Model ----
(***************************************************************************)
(* Device Tree Overlay Configuration File System (drivers/of/dtbocfg.c).   *)
(*                                                                         *)
(* The model follows the configfs callbacks of the driver: make_item and   *)
(* drop_item of the "overlays" group, and the show/store handlers of the   *)
(* two attributes "dtbo" and "status" of every overlay item.  The device   *)
(* tree core (of_fdt_unflatten_tree, of_resolve_phandles,                  *)
(* of_overlay_create, of_overlay_destroy) and the allocator (kmemdup,      *)
(* kzalloc) are called by the driver; their outcomes are chosen            *)
(* nondeterministically by the actions and handed to the operators that    *)
(* model the driver's functions.                                           *)
(***************************************************************************)
EXTENDS Integers, Sequences, FiniteSets, TLC

\* ------------------------------------------------------------------ bounds

\* Longest buffer a client writes to the dtbo attribute.
MaxLen == 3
\* Largest overlay id the overlay core hands out (ids are 0..MaxId).
MaxId == 1

\* ------------------------------------------------------- program constants

EPERM == 1
ENOMEM == 12
EINVAL == 22
\* One transfer page, scaled down to the model's buffer lengths.
PAGE_SIZE == 2

Names == {"a"}
Byte == {0, 1}
Ids == 0..MaxId

RECURSIVE SeqsUpTo(_)
SeqsUpTo(n) ==
    IF n = 0 THEN {<<>>}
    ELSE LET S == SeqsUpTo(n - 1)
         IN  S \cup {Append(s, b) : s \in {t \in S : Len(t) = n - 1}, b \in Byte}

\* The buffers a client may write to the dtbo attribute.
Blobs == SeqsUpTo(MaxLen)

\* ----------------------------------------------------------------- memory

\* A pointer is NULL or points to an object with the given contents.  A
\* zero-length kmemdup returns the non-NULL ZERO_SIZE_PTR: Ptr(<<>>).
NULL == [null |-> TRUE, data |-> <<>>]
Ptr(d) == [null |-> FALSE, data |-> d]

\* struct dtbocfg_overlay_item.  alloc is FALSE once the item is kfree'd (or
\* was never made); node points to the tree unflattened from data.
OverlayItem(node, id, dtbo, dtbo_size) ==
    [alloc |-> TRUE, node |-> node, id |-> id, dtbo |-> dtbo, dtbo_size |-> dtbo_size]
NoItem == [alloc |-> FALSE, node |-> NULL, id |-> -1, dtbo |-> NULL, dtbo_size |-> 0]

\* One call the driver makes, the argument it passes and what comes back.
Call(fn, arg, ret) == [fn |-> fn, arg |-> arg, ret |-> ret]

VARIABLES
    registry,   \* names that exist in the "overlays" group
    overlay,    \* Names -> struct dtbocfg_overlay_item
    ov_idr,     \* the overlay core: id -> the overlay created with that id
    last,       \* the last callback: its arguments, the item before it ran, its
                \* result and the calls it made
    configfs,   \* what dtbocfg_module_init has registered with configfs
    proc        \* callbacks that run on the item at the same time: where each
                \* is in its code, and its local variables

vars == <<registry, overlay, ov_idr, last, configfs, proc>>

\* ------------------------------------------------- the device tree core

\* of_fdt_unflatten_tree(blob, NULL, &overlay->node): the value of
\* overlay->node after the call.  The tree is stored through the third
\* argument only when the blob unflattens (ok); with a NULL blob or a blob
\* that is rejected the function returns before storing anything, so
\* overlay->node keeps the value it had.
of_fdt_unflatten_tree(blob, node, ok) ==
    IF blob.null THEN node
    ELSE IF ok THEN Ptr(blob.data)
    ELSE node

\* of_overlay_create(node): ret >= 0 is the id of the new overlay, entered in
\* the idr for the tree at node; ret < 0 is an error and nothing is created.
\* owner records the item the call was made for.
of_overlay_create(idr, node, owner, ret) ==
    IF ret >= 0
    THEN [idr EXCEPT ![ret] = [live |-> TRUE, owner |-> owner, tree |-> node.data]]
    ELSE idr

NoOverlay == [live |-> FALSE, owner |-> "", tree |-> <<>>]

\* of_overlay_destroy(id): removes the overlay with that id.
of_overlay_destroy(idr, id) ==
    IF id \in DOMAIN idr THEN [idr EXCEPT ![id] = NoOverlay] ELSE idr

FreeIds(idr) == {i \in Ids : ~idr[i].live}

\* What of_resolve_phandles returns: 0 or an error.
ResolveRets == {0, -EINVAL}
\* What of_overlay_create returns: an id not in use, or an error.
CreateRets(idr) == FreeIds(idr) \cup {-ENOMEM}
\* The outcomes of the three calls of one apply step: does the blob
\* unflatten, what of_resolve_phandles returns, what of_overlay_create
\* returns (not called, so of no account, when resolving failed).
CoreOutcomes(idr) ==
    {o \in BOOLEAN \X ResolveRets \X CreateRets(idr) : o[2] /= 0 => o[3] = -ENOMEM}

\* ------------------------------------------------------ the driver's code

\* The result of a handler: the item and the idr afterwards, the value
\* returned, the bytes copied to the caller's page, the calls made in order,
\* and whether the handler faulted instead of returning.
Result(ov, idr, ret, page, calls, oops) ==
    [ov |-> ov, idr |-> idr, ret |-> ret, page |-> page, calls |-> calls, oops |-> oops]

\* Mutant: the result of of_overlay_create is assigned to overlay->id before
\* it is tested, so a failed create leaves its error in id.
item_create_IdBeforeTest(ov, idr, name, unflat_ok, resolve_ret, create_ret) ==
    LET node1  == of_fdt_unflatten_tree(ov.dtbo, ov.node, unflat_ok)
        ov1    == [ov EXCEPT !.node = node1]
        unflat == Call("of_fdt_unflatten_tree", 0, 0)
        resolv == Call("of_resolve_phandles", 0, resolve_ret)
        creat  == Call("of_overlay_create", 0, create_ret)
    IN  IF ~ov.dtbo.null /\ ov.dtbo.data = <<>>
        THEN Result(ov, idr, 0, <<>>, <<unflat>>, TRUE)
        ELSE IF node1.null
        THEN Result(ov1, idr, -EINVAL, <<>>, <<unflat>>, FALSE)
        ELSE IF resolve_ret /= 0
        THEN Result(ov1, idr, resolve_ret, <<>>, <<unflat, resolv>>, FALSE)
        ELSE Result([ov1 EXCEPT !.id = create_ret],
                    of_overlay_create(idr, node1, name, create_ret),
                    IF create_ret < 0 THEN create_ret ELSE 0,
                    <<>>, <<unflat, resolv, creat>>, FALSE)

\* Mutant: the id of_overlay_create returns is not stored in overlay->id.
item_create_IdNotStored(ov, idr, name, unflat_ok, resolve_ret, create_ret) ==
    LET node1  == of_fdt_unflatten_tree(ov.dtbo, ov.node, unflat_ok)
        ov1    == [ov EXCEPT !.node = node1]
        unflat == Call("of_fdt_unflatten_tree", 0, 0)
        resolv == Call("of_resolve_phandles", 0, resolve_ret)
        creat  == Call("of_overlay_create", 0, create_ret)
    IN  IF ~ov.dtbo.null /\ ov.dtbo.data = <<>>
        THEN Result(ov, idr, 0, <<>>, <<unflat>>, TRUE)
        ELSE IF node1.null
        THEN Result(ov1, idr, -EINVAL, <<>>, <<unflat>>, FALSE)
        ELSE IF resolve_ret /= 0
        THEN Result(ov1, idr, resolve_ret, <<>>, <<unflat, resolv>>, FALSE)
        ELSE IF create_ret < 0
        THEN Result(ov1, idr, create_ret, <<>>, <<unflat, resolv, creat>>, FALSE)
        ELSE Result(ov1, of_overlay_create(idr, node1, name, create_ret),
                    0, <<>>, <<unflat, resolv, creat>>, FALSE)

\* dtbocfg_overlay_item_create.  unflat_ok, resolve_ret and create_ret are
\* the outcomes of the three calls into the device tree core.  A blob of
\* length zero is the ZERO_SIZE_PTR: reading its header faults.
dtbocfg_overlay_item_create(ov, idr, name, unflat_ok, resolve_ret, create_ret) ==
    LET node1  == of_fdt_unflatten_tree(ov.dtbo, ov.node, unflat_ok)
        ov1    == [ov EXCEPT !.node = node1]
        unflat == Call("of_fdt_unflatten_tree", 0, 0)
        resolv == Call("of_resolve_phandles", 0, resolve_ret)
        creat  == Call("of_overlay_create", 0, create_ret)
    IN  IF ~ov.dtbo.null /\ ov.dtbo.data = <<>>
        THEN Result(ov, idr, 0, <<>>, <<unflat>>, TRUE)
        ELSE IF node1.null
        THEN Result(ov1, idr, -EINVAL, <<>>, <<unflat>>, FALSE)
        ELSE IF resolve_ret /= 0
        THEN Result(ov1, idr, resolve_ret, <<>>, <<unflat, resolv>>, FALSE)
        ELSE IF create_ret < 0
        THEN Result(ov1, idr, create_ret, <<>>, <<unflat, resolv, creat>>, FALSE)
        ELSE Result([ov1 EXCEPT !.id = create_ret],
                    of_overlay_create(idr, node1, name, create_ret),
                    0, <<>>, <<unflat, resolv, creat>>, FALSE)

\* Mutant: the overlay is destroyed but overlay->id keeps the id.
item_release_IdKept(ov, idr) ==
    IF ov.id >= 0
    THEN Result(ov, of_overlay_destroy(idr, ov.id), 0, <<>>,
                <<Call("of_overlay_destroy", ov.id, 0)>>, FALSE)
    ELSE Result(ov, idr, 0, <<>>, <<>>, FALSE)

\* dtbocfg_overlay_item_release.
dtbocfg_overlay_item_release(ov, idr) ==
    IF ov.id >= 0
    THEN Result([ov EXCEPT !.id = -1], of_overlay_destroy(idr, ov.id), 0, <<>>,
                <<Call("of_overlay_destroy", ov.id, 0)>>, FALSE)
    ELSE Result(ov, idr, 0, <<>>, <<>>, FALSE)

\* kstrtoul(buf, 10, &value) on the characters of buf (a C string without
\* its terminating NUL): an optional '+', at least one decimal digit, an
\* optional final newline, nothing else.  rv is 0 or -EINVAL.
IsDigit(c) == c >= 48 /\ c <= 57

RECURSIVE DigitPrefix(_)
DigitPrefix(s) ==
    IF s /= <<>> /\ IsDigit(s[1]) THEN 1 + DigitPrefix(Tail(s)) ELSE 0

RECURSIVE DecValue(_, _)
DecValue(s, acc) ==
    IF s = <<>> THEN acc ELSE DecValue(Tail(s), acc * 10 + (s[1] - 48))

kstrtoul(buf) ==
    LET s    == IF buf /= <<>> /\ buf[1] = 43 THEN Tail(buf) ELSE buf
        n    == DigitPrefix(s)
        rest == SubSeq(s, n + 1, Len(s))
        tl   == IF rest /= <<>> /\ rest[1] = 10 THEN Tail(rest) ELSE rest
    IN  IF n = 0 \/ tl /= <<>>
        THEN [rv |-> -EINVAL, value |-> 0]
        ELSE [rv |-> 0, value |-> DecValue(SubSeq(s, 1, n), 0)]

\* Mutant: a non-zero value creates the overlay without testing overlay->id.
status_store_NoIdTest(ov, idr, name, buf, unflat_ok, resolve_ret, create_ret) ==
    LET parsed == kstrtoul(buf)
        count  == Len(buf)
    IN  IF parsed.rv /= 0
        THEN Result(ov, idr, -EPERM, <<>>, <<>>, FALSE)
        ELSE IF parsed.value = 0
        THEN IF ov.id >= 0
             THEN [dtbocfg_overlay_item_release(ov, idr) EXCEPT !.ret = count]
             ELSE Result(ov, idr, count, <<>>, <<>>, FALSE)
        ELSE LET r == dtbocfg_overlay_item_create(ov, idr, name, unflat_ok,
                                                  resolve_ret, create_ret)
             IN  [r EXCEPT !.ret = count]

\* Mutant: a zero value destroys the overlay overlay->id names without
\* testing that there is one.
status_store_ReleaseUntested(ov, idr, name, buf, unflat_ok, resolve_ret, create_ret) ==
    LET parsed == kstrtoul(buf)
        count  == Len(buf)
    IN  IF parsed.rv /= 0
        THEN Result(ov, idr, -EPERM, <<>>, <<>>, FALSE)
        ELSE IF parsed.value = 0
        THEN Result([ov EXCEPT !.id = -1], of_overlay_destroy(idr, ov.id), count, <<>>,
                    <<Call("of_overlay_destroy", ov.id, 0)>>, FALSE)
        ELSE IF ov.id < 0
             THEN LET r == dtbocfg_overlay_item_create(ov, idr, name, unflat_ok,
                                                       resolve_ret, create_ret)
                  IN  [r EXCEPT !.ret = count]
             ELSE Result(ov, idr, count, <<>>, <<>>, FALSE)

\* Mutant: the result of kstrtoul is not tested; a text that does not parse
\* leaves value 0 and so disables.
status_store_ParseUntested(ov, idr, name, buf, unflat_ok, resolve_ret, create_ret) ==
    LET parsed == kstrtoul(buf)
        count  == Len(buf)
    IN  IF parsed.value = 0
        THEN IF ov.id >= 0
             THEN [dtbocfg_overlay_item_release(ov, idr) EXCEPT !.ret = count]
             ELSE Result(ov, idr, count, <<>>, <<>>, FALSE)
        ELSE IF ov.id < 0
             THEN LET r == dtbocfg_overlay_item_create(ov, idr, name, unflat_ok,
                                                       resolve_ret, create_ret)
                  IN  [r EXCEPT !.ret = count]
             ELSE Result(ov, idr, count, <<>>, <<>>, FALSE)

\* dtbocfg_overlay_item_status_store.
dtbocfg_overlay_item_status_store(ov, idr, name, buf, unflat_ok, resolve_ret, create_ret) ==
    LET parsed == kstrtoul(buf)
        count  == Len(buf)
    IN  IF parsed.rv /= 0
        THEN Result(ov, idr, -EPERM, <<>>, <<>>, FALSE)
        ELSE IF parsed.value = 0
        THEN IF ov.id >= 0
             THEN [dtbocfg_overlay_item_release(ov, idr) EXCEPT !.ret = count]
             ELSE Result(ov, idr, count, <<>>, <<>>, FALSE)
        ELSE IF ov.id < 0
             THEN LET r == dtbocfg_overlay_item_create(ov, idr, name, unflat_ok,
                                                       resolve_ret, create_ret)
                  IN  [r EXCEPT !.ret = count]
             ELSE Result(ov, idr, count, <<>>, <<>>, FALSE)

\* dtbocfg_overlay_item_status_show: sprintf(page, "%d\n", id >= 0 ? 1 : 0).
dtbocfg_overlay_item_status_show(ov, idr) ==
    Result(ov, idr, 2, <<(IF ov.id >= 0 THEN 49 ELSE 48), 10>>, <<>>, FALSE)

\* Mutant: a successful store does not record the length in dtbo_size.
dtbo_store_SizeNotSet(ov, idr, buf, kmemdup_ok) ==
    LET count == Len(buf)
        busy  == ov.dtbo_size > 0 /\ ov.id >= 0
        freed == ov.dtbo_size > 0
        ov1   == IF freed THEN [ov EXCEPT !.dtbo = NULL, !.dtbo_size = 0] ELSE ov
        c1    == IF freed THEN <<Call("kfree_dtbo", 0, 0)>> ELSE <<>>
    IN  IF busy
        THEN Result(ov, idr, -EPERM, <<>>, <<>>, FALSE)
        ELSE IF ~kmemdup_ok
        THEN Result([ov1 EXCEPT !.dtbo = NULL, !.dtbo_size = 0], idr, -ENOMEM, <<>>,
                    c1 \o <<Call("kmemdup", count, 0)>>, FALSE)
        ELSE Result([ov1 EXCEPT !.dtbo = Ptr(buf)], idr, count, <<>>,
                    c1 \o <<Call("kmemdup", count, 1)>>, FALSE)

\* Mutant: the new copy is made before the old blob is freed, and a failed
\* allocation returns with the old blob still in place.
dtbo_store_KeepsOldOnFailure(ov, idr, buf, kmemdup_ok) ==
    LET count == Len(buf)
        busy  == ov.dtbo_size > 0 /\ ov.id >= 0
        freed == ov.dtbo_size > 0
        c1    == IF freed THEN <<Call("kfree_dtbo", 0, 0)>> ELSE <<>>
    IN  IF busy
        THEN Result(ov, idr, -EPERM, <<>>, <<>>, FALSE)
        ELSE IF ~kmemdup_ok
        THEN Result(ov, idr, -ENOMEM, <<>>, <<Call("kmemdup", count, 0)>>, FALSE)
        ELSE Result([ov EXCEPT !.dtbo = Ptr(buf), !.dtbo_size = count], idr, count, <<>>,
                    <<Call("kmemdup", count, 1)>> \o c1, FALSE)

\* Mutant: dtbo_size is set to count before the result of kmemdup is tested.
dtbo_store_SizeBeforeTest(ov, idr, buf, kmemdup_ok) ==
    LET count == Len(buf)
        busy  == ov.dtbo_size > 0 /\ ov.id >= 0
        freed == ov.dtbo_size > 0
        ov1   == IF freed THEN [ov EXCEPT !.dtbo = NULL, !.dtbo_size = 0] ELSE ov
        c1    == IF freed THEN <<Call("kfree_dtbo", 0, 0)>> ELSE <<>>
    IN  IF busy
        THEN Result(ov, idr, -EPERM, <<>>, <<>>, FALSE)
        ELSE IF ~kmemdup_ok
        THEN Result([ov1 EXCEPT !.dtbo = NULL, !.dtbo_size = count], idr, -ENOMEM, <<>>,
                    c1 \o <<Call("kmemdup", count, 0)>>, FALSE)
        ELSE Result([ov1 EXCEPT !.dtbo = Ptr(buf), !.dtbo_size = count], idr, count, <<>>,
                    c1 \o <<Call("kmemdup", count, 1)>>, FALSE)

\* dtbocfg_overlay_item_dtbo_store.  kmemdup_ok: the allocation succeeds.
dtbocfg_overlay_item_dtbo_store(ov, idr, buf, kmemdup_ok) ==
    LET count == Len(buf)
        busy  == ov.dtbo_size > 0 /\ ov.id >= 0
        freed == ov.dtbo_size > 0
        ov1   == IF freed THEN [ov EXCEPT !.dtbo = NULL, !.dtbo_size = 0] ELSE ov
        c1    == IF freed THEN <<Call("kfree_dtbo", 0, 0)>> ELSE <<>>
    IN  IF busy
        THEN Result(ov, idr, -EPERM, <<>>, <<>>, FALSE)
        ELSE IF ~kmemdup_ok
        THEN Result([ov1 EXCEPT !.dtbo = NULL, !.dtbo_size = 0], idr, -ENOMEM, <<>>,
                    c1 \o <<Call("kmemdup", count, 0)>>, FALSE)
        ELSE Result([ov1 EXCEPT !.dtbo = Ptr(buf), !.dtbo_size = count], idr, count, <<>>,
                    c1 \o <<Call("kmemdup", count, 1)>>, FALSE)

\* Mutant: a blob longer than a page is cut to the page instead of refused.
dtbo_show_Truncates(ov, idr) ==
    IF ov.dtbo.null
    THEN Result(ov, idr, 0, <<>>, <<>>, FALSE)
    ELSE IF ov.dtbo_size > PAGE_SIZE
    THEN Result(ov, idr, PAGE_SIZE, SubSeq(ov.dtbo.data, 1, PAGE_SIZE), <<>>, FALSE)
    ELSE Result(ov, idr, ov.dtbo_size, SubSeq(ov.dtbo.data, 1, ov.dtbo_size), <<>>, FALSE)

\* dtbocfg_overlay_item_dtbo_show.
dtbocfg_overlay_item_dtbo_show(ov, idr) ==
    IF ov.dtbo.null
    THEN Result(ov, idr, 0, <<>>, <<>>, FALSE)
    ELSE IF ov.dtbo_size > PAGE_SIZE
    THEN Result(ov, idr, -EINVAL, <<>>, <<>>, FALSE)
    ELSE Result(ov, idr, ov.dtbo_size, SubSeq(ov.dtbo.data, 1, ov.dtbo_size), <<>>, FALSE)

\* Mutant: the blob is freed before the overlay is released.
overlay_release_BlobFirst(ov, idr) ==
    LET c1  == IF ~ov.dtbo.null THEN <<Call("kfree_dtbo", 0, 0)>> ELSE <<>>
        r   == dtbocfg_overlay_item_release(ov, idr)
    IN  Result(NoItem, r.idr, 0, <<>>,
               c1 \o r.calls \o <<Call("kfree_overlay", 0, 0)>>, FALSE)

\* Mutant: the item is freed without releasing its overlay.
overlay_release_NoRelease(ov, idr) ==
    LET c1  == IF ~ov.dtbo.null THEN <<Call("kfree_dtbo", 0, 0)>> ELSE <<>>
    IN  Result(NoItem, idr, 0, <<>>, c1 \o <<Call("kfree_overlay", 0, 0)>>, FALSE)

\* dtbocfg_overlay_release: the item's release callback.
dtbocfg_overlay_release(ov, idr) ==
    LET r   == dtbocfg_overlay_item_release(ov, idr)
        c1  == IF ~r.ov.dtbo.null THEN <<Call("kfree_dtbo", 0, 0)>> ELSE <<>>
    IN  Result(NoItem, r.idr, 0, <<>>,
               r.calls \o c1 \o <<Call("kfree_overlay", 0, 0)>>, FALSE)

\* dtbocfg_overlay_group_make_item.  kzalloc_ok: the allocation succeeds.
dtbocfg_overlay_group_make_item(idr, kzalloc_ok) ==
    IF ~kzalloc_ok
    THEN Result(NoItem, idr, -ENOMEM, <<>>, <<Call("kzalloc", 0, 0)>>, FALSE)
    ELSE Result(OverlayItem(NULL, -1, NULL, 0), idr, 0, <<>>,
                <<Call("kzalloc", 0, 1)>>, FALSE)

\* dtbocfg_overlay_group_drop_item: config_item_put drops the last reference
\* and so runs the release callback.
dtbocfg_overlay_group_drop_item(ov, idr) ==
    dtbocfg_overlay_release(ov, idr)

\* Mutant: a failed registration of the group returns through the label of
\* the failed subsystem registration, leaving the subsystem registered.
module_init_NoUnregister(cfs, subsys_ret, group_ret) ==
    LET sub == Call("configfs_register_subsystem", 0, subsys_ret)
        grp == Call("configfs_register_group", 0, group_ret)
    IN  IF subsys_ret /= 0
        THEN [cfs |-> cfs, ret |-> subsys_ret, calls |-> <<sub>>]
        ELSE IF group_ret /= 0
        THEN [cfs |-> [cfs EXCEPT !.subsys = TRUE], ret |-> group_ret,
              calls |-> <<sub, grp>>]
        ELSE [cfs |-> [subsys |-> TRUE, group |-> TRUE], ret |-> 0, calls |-> <<sub, grp>>]

\* dtbocfg_module_init.  subsys_ret and group_ret are what
\* configfs_register_subsystem and configfs_register_group return.
dtbocfg_module_init(cfs, subsys_ret, group_ret) ==
    LET sub == Call("configfs_register_subsystem", 0, subsys_ret)
        grp == Call("configfs_register_group", 0, group_ret)
        unr == Call("configfs_unregister_subsystem", 0, 0)
    IN  IF subsys_ret /= 0
        THEN [cfs |-> cfs, ret |-> subsys_ret, calls |-> <<sub>>]
        ELSE IF group_ret /= 0
        THEN [cfs |-> [cfs EXCEPT !.subsys = FALSE], ret |-> group_ret,
              calls |-> <<sub, grp, unr>>]
        ELSE [cfs |-> [subsys |-> TRUE, group |-> TRUE], ret |-> 0, calls |-> <<sub, grp>>]

\* dtbocfg_module_exit.
dtbocfg_module_exit(cfs) ==
    [cfs |-> [subsys |-> FALSE, group |-> FALSE], ret |-> 0,
     calls |-> <<Call("configfs_unregister_group", 0, 0),
                 Call("configfs_unregister_subsystem", 0, 0)>>]

\* What a configfs registration returns: 0 or an error.
RegisterRets == {0, -ENOMEM, -EINVAL}

\* A callback that is not running, and the callbacks that may run at once.
Procs == {1, 2}
IdleProc == [pc |-> "idle", op |-> "", buf |-> <<>>, ret_val |-> 0, called |-> "", arg |-> 0]

\* --------------------------------------------------------------- actions

\* Texts written to the status attribute: "0", "1", "1\n", "2", "x", "".
StatusTexts == {<<48>>, <<49>>, <<49, 10>>, <<50>>, <<120>>, <<>>}

Last(op, name, buf, r) ==
    [op |-> op, name |-> name, buf |-> buf, pre |-> overlay[name], pre_idr |-> ov_idr,
     ret |-> r.ret, page |-> r.page, calls |-> r.calls, oops |-> r.oops]

Init ==
    /\ registry = {}
    /\ overlay = [n \in Names |-> NoItem]
    /\ ov_idr = [i \in Ids |-> NoOverlay]
    /\ last = [op |-> "init", name |-> "", buf |-> <<>>, pre |-> NoItem,
               pre_idr |-> [i \in Ids |-> NoOverlay], ret |-> 0,
               page |-> <<>>, calls |-> <<>>, oops |-> FALSE]
    /\ configfs = [subsys |-> FALSE, group |-> FALSE]
    /\ proc = [p \in Procs |-> IdleProc]

Apply(op, name, buf, r) ==
    /\ configfs.group
    /\ overlay' = [overlay EXCEPT ![name] = r.ov]
    /\ ov_idr' = r.idr
    /\ last' = Last(op, name, buf, r)
    /\ UNCHANGED <<configfs, proc>>

\* The module is loaded: dtbocfg_module_init runs.  When it fails the module
\* is not loaded and may be loaded again.
ModuleInit ==
    /\ ~configfs.subsys /\ ~configfs.group
    /\ \E subsys_ret \in RegisterRets, group_ret \in RegisterRets :
         LET r == dtbocfg_module_init(configfs, subsys_ret, group_ret)
         IN  /\ configfs' = r.cfs
             /\ last' = [op |-> "module_init", name |-> "", buf |-> <<>>, pre |-> NoItem,
                         pre_idr |-> ov_idr, ret |-> r.ret, page |-> <<>>,
                         calls |-> r.calls, oops |-> FALSE]
    /\ UNCHANGED <<registry, overlay, ov_idr, proc>>

\* The module is unloaded: dtbocfg_module_exit runs.  configfs pins the
\* module while items exist, so the group is empty.
ModuleExit ==
    /\ configfs.subsys /\ configfs.group
    /\ registry = {}
    /\ LET r == dtbocfg_module_exit(configfs)
       IN  /\ configfs' = r.cfs
           /\ last' = [op |-> "module_exit", name |-> "", buf |-> <<>>, pre |-> NoItem,
                       pre_idr |-> ov_idr, ret |-> r.ret, page |-> <<>>,
                       calls |-> r.calls, oops |-> FALSE]
    /\ UNCHANGED <<registry, overlay, ov_idr, proc>>

\* mkdir overlays/<name>: configfs refuses a name that exists, then calls
\* make_item and links the new item unless make_item failed.
MakeItem(name) ==
    /\ name \notin registry
    /\ \E kzalloc_ok \in BOOLEAN :
         LET r == dtbocfg_overlay_group_make_item(ov_idr, kzalloc_ok)
         IN  /\ Apply("make_item", name, <<>>, r)
             /\ registry' = IF r.ret = 0 THEN registry \cup {name} ELSE registry

\* rmdir overlays/<name>: configfs unlinks the item and calls drop_item.
DropItem(name) ==
    /\ name \in registry
    /\ Apply("drop_item", name, <<>>, dtbocfg_overlay_group_drop_item(overlay[name], ov_idr))
    /\ registry' = registry \ {name}

\* write(overlays/<name>/status, buf).
StatusStore(name) ==
    /\ name \in registry
    /\ \E buf \in StatusTexts, o \in CoreOutcomes(ov_idr) :
         Apply("status_store", name, buf,
               dtbocfg_overlay_item_status_store(overlay[name], ov_idr, name, buf,
                                                 o[1], o[2], o[3]))
    /\ UNCHANGED registry

\* read(overlays/<name>/status).
StatusShow(name) ==
    /\ name \in registry
    /\ Apply("status_show", name, <<>>, dtbocfg_overlay_item_status_show(overlay[name], ov_idr))
    /\ UNCHANGED registry

\* write(overlays/<name>/dtbo, buf).
DtboStore(name) ==
    /\ name \in registry
    /\ \E buf \in Blobs, kmemdup_ok \in BOOLEAN :
         Apply("dtbo_store", name, buf,
               dtbocfg_overlay_item_dtbo_store(overlay[name], ov_idr, buf, kmemdup_ok))
    /\ UNCHANGED registry

\* read(overlays/<name>/dtbo).
DtboShow(name) ==
    /\ name \in registry
    /\ Apply("dtbo_show", name, <<>>, dtbocfg_overlay_item_dtbo_show(overlay[name], ov_idr))
    /\ UNCHANGED registry

Next ==
    \/ ModuleInit
    \/ ModuleExit
    \/ \E name \in Names :
        \/ MakeItem(name)
        \/ DropItem(name)
        \/ StatusStore(name)
        \/ StatusShow(name)
        \/ DtboStore(name)
        \/ DtboShow(name)

Spec == Init /\ [][Next]_vars

\* ---------------------------------------------------------------- states

\* The item the last callback ran on, as it is now (last.pre: as it was).
Post == IF last.name \in Names THEN overlay[last.name] ELSE NoItem

Applied(ov) == ov.alloc /\ ov.id >= 0
Empty(ov) == ov.alloc /\ ov.id < 0 /\ ov.dtbo.null
Loaded(ov) == ov.alloc /\ ov.id < 0 /\ ~ov.dtbo.null /\ ov.dtbo_size > 0

\* The calls of the last callback to the function fn.
CallsTo(fn) == {i \in 1..Len(last.calls) : last.calls[i].fn = fn}

\* The last callback was a status write that asks to enable / to disable.
Enable == last.op = "status_store" /\ kstrtoul(last.buf).rv = 0 /\ kstrtoul(last.buf).value /= 0
Disable == last.op = "status_store" /\ kstrtoul(last.buf).rv = 0 /\ kstrtoul(last.buf).value = 0

\* The last callback ran the apply step (dtbocfg_overlay_item_create) and
\* the step returned; it succeeded iff of_overlay_create returned an id.
ApplyRan == Enable /\ CallsTo("of_fdt_unflatten_tree") /= {} /\ ~last.oops
ApplySucceeded == ApplyRan /\ \E i \in CallsTo("of_overlay_create") : last.calls[i].ret >= 0
ApplyFailed == ApplyRan /\ ~ApplySucceeded

\* The error the failed apply step returned to dtbocfg_overlay_item_status_store.
ApplyError ==
    IF CallsTo("of_overlay_create") /= {}
    THEN last.calls[CHOOSE i \in CallsTo("of_overlay_create") : TRUE].ret
    ELSE IF CallsTo("of_resolve_phandles") /= {}
    THEN last.calls[CHOOSE i \in CallsTo("of_resolve_phandles") : TRUE].ret
    ELSE -EINVAL

\* What a read of the status attribute shows for the item ov: 1 or 0.
StatusOf(ov) == dtbocfg_overlay_item_status_show(ov, ov_idr).page[1] = 49

\* ----------------------------------------------------------------- claims

\* C1: whenever an item is Applied (id >= 0), dtbo_store with any data,
\* zero-length data included, fails with -EPERM and leaves the blob, its
\* length and the applied id unchanged.
C1_StoreOnAppliedIsBusy ==
    (last.op = "dtbo_store" /\ last.pre.id >= 0) =>
        /\ last.ret = -EPERM
        /\ Post.dtbo = last.pre.dtbo
        /\ Post.dtbo_size = last.pre.dtbo_size
        /\ Post.id = last.pre.id

\* C2: a status write that enables an Empty item (blob absent) fails with an
\* error instead of returning success; afterwards the blob is still absent
\* and a status read still shows 0.
C2_EnableOnEmptyFails ==
    (Enable /\ Empty(last.pre)) =>
        /\ last.ret < 0
        /\ Post.dtbo.null
        /\ ~StatusOf(Post)

\* C3: when a status write enables a Loaded item and the apply step fails
\* (unflatten, phandle resolution or overlay creation), the write returns the
\* error of the apply step, not success.
C3_ApplyErrorReturned ==
    (ApplyFailed /\ Loaded(last.pre)) => last.ret = ApplyError

\* C4: when a status write enables a Loaded item and the apply step fails,
\* the item remains Loaded: id stays -1, a status read shows 0, and the blob
\* and its length are unchanged.
C4_FailedApplyStaysLoaded ==
    (ApplyFailed /\ Loaded(last.pre)) =>
        /\ Post.id = -1
        /\ ~StatusOf(Post)
        /\ Post.dtbo = last.pre.dtbo
        /\ Post.dtbo_size = last.pre.dtbo_size
        /\ Loaded(Post)

\* C4 witness: of_overlay_create failed for a Loaded item.
C4_Witness ==
    /\ ApplyFailed /\ Loaded(last.pre)
    /\ \E i \in CallsTo("of_overlay_create") : last.calls[i].ret = -ENOMEM

\* C5: when a status write enables a Loaded item and of_overlay_create
\* returns the id i >= 0, the item is Applied with id i, a status read shows
\* 1, and the blob is unchanged.
C5_ApplySuccessStoresId ==
    \A i \in CallsTo("of_overlay_create") :
        (Enable /\ Loaded(last.pre) /\ last.calls[i].ret >= 0) =>
            /\ Post.id = last.calls[i].ret
            /\ Applied(Post)
            /\ StatusOf(Post)
            /\ Post.dtbo = last.pre.dtbo
            /\ Post.dtbo_size = last.pre.dtbo_size

\* C5 witness: a Loaded item was applied and got the id MaxId.
C5_Witness ==
    /\ Enable /\ Loaded(last.pre) /\ ApplySucceeded
    /\ Post.id = MaxId

\* C6: dropping an Applied item calls of_overlay_destroy exactly once, with
\* the item's id, before the blob is freed and before the item is freed;
\* afterwards the item does not exist and its name is not in the group.
C6_DropReleasesFirst ==
    (last.op = "drop_item" /\ last.pre.id >= 0) =>
        /\ Cardinality(CallsTo("of_overlay_destroy")) = 1
        /\ Cardinality(CallsTo("kfree_overlay")) = 1
        /\ \A i \in CallsTo("of_overlay_destroy") :
              /\ last.calls[i].arg = last.pre.id
              /\ \A j \in CallsTo("kfree_dtbo") \cup CallsTo("kfree_overlay") : i < j
        /\ \A j \in CallsTo("kfree_dtbo") : \A k \in CallsTo("kfree_overlay") : j < k
        /\ ~last.pre.dtbo.null => CallsTo("kfree_dtbo") /= {}
        /\ ~Post.alloc
        /\ last.name \notin registry
        /\ ~ov_idr[last.pre.id].live

\* C6 witness: an Applied item that holds a blob was dropped.
C6_Witness ==
    /\ last.op = "drop_item" /\ last.pre.id >= 0
    /\ last.pre.dtbo_size > 0

\* C7: of_overlay_destroy is never called twice for the same id: every call
\* is for an id that of_overlay_create returned for this item and that has
\* not been destroyed since, and one callback makes at most one such call.
C7_NoDoubleRelease ==
    /\ Cardinality(CallsTo("of_overlay_destroy")) <= 1
    /\ \A i \in CallsTo("of_overlay_destroy") :
          /\ last.calls[i].arg \in Ids
          /\ last.pre_idr[last.calls[i].arg].live
          /\ last.pre_idr[last.calls[i].arg].owner = last.name
          /\ ~ov_idr[last.calls[i].arg].live

\* C7 witness: a status write released the id MaxId.
C7_Witness ==
    /\ Disable
    /\ \E i \in CallsTo("of_overlay_destroy") : last.calls[i].arg = MaxId

\* C8: a status write that enables an item that is already Applied does not
\* run the apply step again and leaves the id (and all of the item) as it is.
C8_EnableOnAppliedIsNoop ==
    (Enable /\ last.pre.id >= 0) =>
        /\ last.calls = <<>>
        /\ Post = last.pre
        /\ ov_idr = last.pre_idr
        /\ last.ret = Len(last.buf)

\* C8 witness: an Applied item was enabled again.
C8_Witness == Enable /\ last.pre.id >= 0 /\ last.buf = <<49, 10>>

\* C9: a status write that disables an item that is not Applied returns
\* success, calls no of_overlay_destroy and leaves blob and id unchanged;
\* after every disable a status read shows 0, and a disable of an Applied
\* item calls of_overlay_destroy once.
C9_DisableIsIdempotent ==
    /\ (Disable /\ last.pre.id < 0) =>
          /\ last.ret = Len(last.buf)
          /\ last.calls = <<>>
          /\ Post = last.pre
          /\ ov_idr = last.pre_idr
    /\ Disable => ~StatusOf(Post)
    /\ (Disable /\ last.pre.id >= 0) =>
          /\ last.ret = Len(last.buf)
          /\ Cardinality(CallsTo("of_overlay_destroy")) = 1

\* C9 witness: a Loaded item whose blob had been unflattened before (it went
\* through an enable) was disabled while not Applied.
C9_Witness == Disable /\ Loaded(last.pre) /\ ~last.pre.node.null

\* C10: after a dtbo_store of b, len(b) <= PAGE_SIZE, that stored b on an
\* item that is not Applied, a dtbo_show returns exactly b and len(b),
\* whatever blob the item held before.
C10_RoundTrip ==
    (last.op = "dtbo_store" /\ last.pre.id < 0 /\ last.ret >= 0
        /\ Len(last.buf) <= PAGE_SIZE) =>
        LET r == dtbocfg_overlay_item_dtbo_show(Post, ov_idr)
        IN  /\ r.ret = Len(last.buf)
            /\ r.page = last.buf

\* C10 witness: a blob of PAGE_SIZE bytes replaced a different blob.
C10_Witness ==
    /\ last.op = "dtbo_store" /\ last.pre.id < 0 /\ last.ret >= 0
    /\ Len(last.buf) = PAGE_SIZE
    /\ last.pre.dtbo_size > 0 /\ last.pre.dtbo.data /= last.buf

\* C11: dtbo_show never truncates: a blob longer than PAGE_SIZE gives an
\* error and copies nothing, a blob within PAGE_SIZE is returned whole, and
\* an item without a blob gives zero bytes as a success; nothing changes.
C11_ShowNeverTruncates ==
    last.op = "dtbo_show" =>
        /\ last.pre.dtbo.null => (last.ret = 0 /\ last.page = <<>>)
        /\ (~last.pre.dtbo.null /\ last.pre.dtbo_size > PAGE_SIZE) =>
              (last.ret < 0 /\ last.page = <<>>)
        /\ (~last.pre.dtbo.null /\ last.pre.dtbo_size <= PAGE_SIZE) =>
              (last.ret = Len(last.pre.dtbo.data) /\ last.page = last.pre.dtbo.data)
        /\ Post = last.pre

\* C11 witness: a blob longer than a page was read.
C11_Witness ==
    last.op = "dtbo_show" /\ ~last.pre.dtbo.null /\ last.pre.dtbo_size > PAGE_SIZE

\* The last callback was a store that returned an error.
StoreFailed == last.op \in {"dtbo_store", "status_store"} /\ last.ret < 0 /\ ~last.oops

\* C12 (as claimed): whenever dtbo_store or status_store returns an error the
\* item is exactly as it was before the call; in particular a dtbo_store
\* that fails with -ENOMEM on a Loaded item leaves the old blob in place.
C12_FailedStoreChangesNothing ==
    StoreFailed => Post = last.pre

\* C12 (amended): an error from status_store, and -EPERM from dtbo_store,
\* leave the item exactly as it was; a dtbo_store that fails with -ENOMEM
\* leaves id as it was and the item without a blob (dtbo NULL, dtbo_size 0),
\* whatever blob it held; no failed store touches the overlay core.
C12_FailedStoreState ==
    StoreFailed =>
        /\ Post.id = last.pre.id
        /\ Post.alloc /\ Post.node = last.pre.node
        /\ ov_idr = last.pre_idr
        /\ (last.op = "status_store" \/ last.ret = -EPERM) => Post = last.pre
        /\ (last.op = "dtbo_store" /\ last.ret /= -EPERM) =>
              (last.ret = -ENOMEM /\ Post.dtbo.null /\ Post.dtbo_size = 0)

\* C12 witness: a dtbo_store on a Loaded item failed with -ENOMEM.
C12_Witness ==
    last.op = "dtbo_store" /\ last.ret = -ENOMEM /\ Loaded(last.pre)

\* A boolean encoding: "0" or "1", with or without a final newline.
IsBoolText(buf) == buf \in {<<48>>, <<49>>, <<48, 10>>, <<49, 10>>}

\* C13 (as claimed): a status write whose text is not a boolean encoding
\* fails with an error before any state change: no call to the overlay
\* core, item unchanged.
C13_NonBooleanRejected ==
    (last.op = "status_store" /\ ~IsBoolText(last.buf)) =>
        /\ last.ret < 0
        /\ last.calls = <<>>
        /\ Post = last.pre

\* C13 (amended): a status write whose text kstrtoul does not accept as an
\* unsigned decimal number fails with -EPERM before any state change: no
\* call is made and the item and the overlay core are unchanged.
C13_UnparsableRejected ==
    (last.op = "status_store" /\ kstrtoul(last.buf).rv /= 0) =>
        /\ last.ret = -EPERM
        /\ last.calls = <<>>
        /\ Post = last.pre
        /\ ov_idr = last.pre_idr

\* C13 witness: the text "x" was written to the status of an Applied item.
C13_Witness ==
    last.op = "status_store" /\ last.buf = <<120>> /\ last.pre.id >= 0

\* C15: in every state an Applied item (id >= 0) holds a non-empty blob
\* (dtbo present, dtbo_size > 0), and of_overlay_create is never called for
\* an item that has no blob.
C15_AppliedHasBlob ==
    /\ \A n \in Names :
          Applied(overlay[n]) => (~overlay[n].dtbo.null /\ overlay[n].dtbo_size > 0)
    /\ (last.op = "status_store" /\ CallsTo("of_overlay_create") /= {}) =>
          (~last.pre.dtbo.null /\ last.pre.dtbo_size > 0)

\* C17: when dtbo_store fails with -ENOMEM on an item that is not Applied,
\* the item is left Empty: dtbo NULL, dtbo_size 0, id -1, and a dtbo_show
\* returns zero bytes.
C17_FailedStoreLeavesEmpty ==
    (last.op = "dtbo_store" /\ last.ret = -ENOMEM /\ last.pre.id < 0) =>
        /\ Post.dtbo.null
        /\ Post.dtbo_size = 0
        /\ Post.id = -1
        /\ Empty(Post)
        /\ LET r == dtbocfg_overlay_item_dtbo_show(Post, ov_idr)
           IN  r.ret = 0 /\ r.page = <<>>

\* C17 witness: the store of a non-empty buffer over a blob of MaxLen bytes
\* failed with -ENOMEM.
C17_Witness ==
    /\ last.op = "dtbo_store" /\ last.ret = -ENOMEM /\ last.pre.id < 0
    /\ last.pre.dtbo_size = MaxLen /\ last.buf /= <<>>

\* C18: in every state dtbo_size is the number of bytes of the stored blob,
\* and an absent blob (dtbo NULL) has dtbo_size 0.
C18_SizeMatchesBlob ==
    \A n \in Names :
        /\ overlay[n].dtbo.null => overlay[n].dtbo_size = 0
        /\ ~overlay[n].dtbo.null => overlay[n].dtbo_size = Len(overlay[n].dtbo.data)

\* C18 witness: a blob of MaxLen bytes was replaced by a shorter, non-empty one.
C18_Witness ==
    /\ last.op = "dtbo_store" /\ last.ret > 0
    /\ last.pre.dtbo_size = MaxLen /\ Post.dtbo_size < MaxLen

\* The ids of_overlay_create returned for the item n and that have not been
\* destroyed.
LiveIdsOf(n) == {i \in Ids : ov_idr[i].live /\ ov_idr[i].owner = n}

\* C20: between callbacks the ids created for an item and not yet destroyed
\* are exactly {id} when the item is Applied and none otherwise; so once an
\* item is dropped and freed every id it was given has been destroyed.
C20_NoIdLeak ==
    \A n \in Names :
        LiveIdsOf(n) = IF Applied(overlay[n]) THEN {overlay[n].id} ELSE {}

\* C20 witness: an item that held the id MaxId was dropped.
C20_Witness ==
    /\ last.op = "drop_item" /\ last.pre.id = MaxId
    /\ LiveIdsOf(last.name) = {}

\* C16: when dtbocfg_module_init registers the subsystem and the
\* registration of the "overlays" group then fails, it unregisters the
\* subsystem before returning that error, and nothing is left registered;
\* when the registration of the subsystem fails, nothing is unregistered and
\* the group is never registered.
C16_InitUnwinds ==
    last.op = "module_init" =>
        LET sub == last.calls[1]
        IN  /\ sub.fn = "configfs_register_subsystem"
            /\ sub.ret /= 0 =>
                  /\ last.calls = <<sub>>
                  /\ last.ret = sub.ret
                  /\ ~configfs.subsys /\ ~configfs.group
            /\ sub.ret = 0 =>
                  /\ Len(last.calls) >= 2
                  /\ last.calls[2].fn = "configfs_register_group"
                  /\ last.calls[2].ret /= 0 =>
                        /\ Len(last.calls) = 3
                        /\ last.calls[3].fn = "configfs_unregister_subsystem"
                        /\ last.ret = last.calls[2].ret
                        /\ ~configfs.subsys /\ ~configfs.group
                  /\ last.calls[2].ret = 0 =>
                        /\ Len(last.calls) = 2
                        /\ last.ret = 0
                        /\ configfs.subsys /\ configfs.group

\* C16 witness: the registration of the group failed with -EINVAL after the
\* subsystem was registered.
C16_Witness ==
    /\ last.op = "module_init" /\ Len(last.calls) >= 2
    /\ last.calls[1].ret = 0 /\ last.calls[2].ret = -EINVAL

\* --------------------------------------------- handlers running at once
\* configfs locks per open file, not per item, and the driver takes no lock:
\* two writers that opened the attributes of one item run its store handlers
\* at the same time.  Each handler is cut into steps at its reads and writes
\* of the item and at its calls; each writer runs one handler.

\* The item the writers work on, and what they write.
ConcName == "a"
ConcBlobs == {b \in Blobs : Len(b) >= 1 /\ Len(b) <= 2}
ConcTexts == {<<48>>, <<49>>}

Item == overlay[ConcName]

\* The handler of writer p moves to pc, with its locals set by the record l.
Goto(p, pc, l) ==
    proc' = [proc EXCEPT ![p] = [k \in DOMAIN IdleProc |->
                IF k = "pc" THEN pc ELSE IF k \in DOMAIN l THEN l[k] ELSE proc[p][k]]]
SetItem(ov) == overlay' = [overlay EXCEPT ![ConcName] = ov]

\* The item holds a blob and is not applied, or is applied with that blob.
ConcInit ==
    /\ registry = {ConcName}
    /\ configfs = [subsys |-> TRUE, group |-> TRUE]
    /\ last = [op |-> "init", name |-> "", buf |-> <<>>, pre |-> NoItem,
               pre_idr |-> [i \in Ids |-> NoOverlay], ret |-> 0,
               page |-> <<>>, calls |-> <<>>, oops |-> FALSE]
    /\ proc = [p \in Procs |-> IdleProc]
    /\ \E b \in ConcBlobs :
         \/ /\ overlay = [n \in Names |-> OverlayItem(NULL, -1, Ptr(b), Len(b))]
            /\ ov_idr = [i \in Ids |-> NoOverlay]
         \/ \E id \in Ids :
            /\ overlay = [n \in Names |-> OverlayItem(Ptr(b), id, Ptr(b), Len(b))]
            /\ ov_idr = of_overlay_create([i \in Ids |-> NoOverlay], Ptr(b), ConcName, id)

\* dtbo_store, lines 169-174: the tests of dtbo_size and id.
CStoreEnter(p) ==
    /\ proc[p].pc = "idle"
    /\ \E buf \in ConcBlobs :
         IF Item.dtbo_size > 0 /\ Item.id >= 0
         THEN Goto(p, "done", [op |-> "store", buf |-> buf, ret_val |-> -EPERM])
         ELSE IF Item.dtbo_size > 0
         THEN Goto(p, "store_free", [op |-> "store", buf |-> buf])
         ELSE Goto(p, "store_dup", [op |-> "store", buf |-> buf])
    /\ UNCHANGED <<registry, overlay, ov_idr, last, configfs>>

\* dtbo_store, line 175: kfree(overlay->dtbo); overlay->dtbo dangles.
CStoreFree(p) ==
    /\ proc[p].pc = "store_free"
    /\ Goto(p, "store_null", <<>>)
    /\ UNCHANGED <<registry, overlay, ov_idr, last, configfs>>

\* dtbo_store, lines 176-177.
CStoreNull(p) ==
    /\ proc[p].pc = "store_null"
    /\ SetItem([Item EXCEPT !.dtbo = NULL, !.dtbo_size = 0])
    /\ Goto(p, "store_dup", <<>>)
    /\ UNCHANGED <<registry, ov_idr, last, configfs>>

\* dtbo_store, line 180.
CStoreDup(p) ==
    /\ proc[p].pc = "store_dup"
    /\ \E kmemdup_ok \in BOOLEAN :
         SetItem([Item EXCEPT !.dtbo = IF kmemdup_ok THEN Ptr(proc[p].buf) ELSE NULL])
    /\ Goto(p, "store_size", <<>>)
    /\ UNCHANGED <<registry, ov_idr, last, configfs>>

\* dtbo_store, lines 181-187.
CStoreSize(p) ==
    /\ proc[p].pc = "store_size"
    /\ IF Item.dtbo.null
       THEN /\ SetItem([Item EXCEPT !.dtbo_size = 0])
            /\ Goto(p, "done", [ret_val |-> -ENOMEM])
       ELSE /\ SetItem([Item EXCEPT !.dtbo_size = Len(proc[p].buf)])
            /\ Goto(p, "done", [ret_val |-> Len(proc[p].buf)])
    /\ UNCHANGED <<registry, ov_idr, last, configfs>>

\* status_store, lines 128-139: the text is parsed and id is tested.
CStatusEnter(p) ==
    /\ proc[p].pc = "idle"
    /\ \E buf \in ConcTexts :
         LET parsed == kstrtoul(buf)
             op     == IF parsed.value = 0 THEN "disable" ELSE "enable"
             l      == [op |-> op, buf |-> buf, ret_val |-> Len(buf)]
         IN  IF parsed.rv /= 0
             THEN Goto(p, "done", [op |-> "status", buf |-> buf, ret_val |-> -EPERM])
             ELSE IF parsed.value = 0
             THEN IF Item.id >= 0 THEN Goto(p, "release", l) ELSE Goto(p, "done", l)
             ELSE IF Item.id < 0 THEN Goto(p, "unflatten", l) ELSE Goto(p, "done", l)
    /\ UNCHANGED <<registry, overlay, ov_idr, last, configfs>>

\* item_release, lines 103-104: id is tested and passed to of_overlay_destroy.
CRelease(p) ==
    /\ proc[p].pc = "release"
    /\ IF Item.id >= 0
       THEN /\ ov_idr' = of_overlay_destroy(ov_idr, Item.id)
            /\ Goto(p, "rel_clear", [called |-> "destroy", arg |-> Item.id])
       ELSE /\ ov_idr' = ov_idr
            /\ Goto(p, "done", <<>>)
    /\ UNCHANGED <<registry, overlay, last, configfs>>

\* item_release, line 105.
CRelClear(p) ==
    /\ proc[p].pc = "rel_clear"
    /\ SetItem([Item EXCEPT !.id = -1])
    /\ Goto(p, "done", <<>>)
    /\ UNCHANGED <<registry, ov_idr, last, configfs>>

\* The blob is being read after another writer freed it (between lines 175
\* and 176 of its dtbo_store).
Dangling(p) == \E q \in Procs \ {p} : proc[q].pc = "store_null"

\* item_create, lines 63-71: the blob is unflattened and node is tested.
\* Reading a freed blob may unflatten what it held, fail, or fault.
CUnflatten(p) ==
    /\ proc[p].pc = "unflatten"
    /\ \E out \in {"ok", "fail", "oops"} :
         /\ out = "oops" => Dangling(p)
         /\ IF out = "oops"
            THEN /\ overlay' = overlay
                 /\ Goto(p, "done", [called |-> "oops"])
            ELSE LET node1 == of_fdt_unflatten_tree(Item.dtbo, Item.node, out = "ok")
                 IN  /\ SetItem([Item EXCEPT !.node = node1])
                     /\ IF node1.null THEN Goto(p, "done", <<>>)
                        ELSE Goto(p, "resolve", <<>>)
    /\ UNCHANGED <<registry, ov_idr, last, configfs>>

\* item_create, lines 76-80.
CResolve(p) ==
    /\ proc[p].pc = "resolve"
    /\ \E resolve_ret \in ResolveRets :
         IF resolve_ret /= 0 THEN Goto(p, "done", <<>>) ELSE Goto(p, "create", <<>>)
    /\ UNCHANGED <<registry, overlay, ov_idr, last, configfs>>

\* item_create, lines 83-87: of_overlay_create(overlay->node).
CCreate(p) ==
    /\ proc[p].pc = "create"
    /\ \E create_ret \in CreateRets(ov_idr) :
         /\ ov_idr' = of_overlay_create(ov_idr, Item.node, ConcName, create_ret)
         /\ IF create_ret < 0 THEN Goto(p, "done", [called |-> "create", arg |-> create_ret])
            ELSE Goto(p, "setid", [called |-> "create", arg |-> create_ret])
    /\ UNCHANGED <<registry, overlay, last, configfs>>

\* item_create, lines 88-90.
CSetId(p) ==
    /\ proc[p].pc = "setid"
    /\ SetItem([Item EXCEPT !.id = proc[p].arg])
    /\ Goto(p, "done", <<>>)
    /\ UNCHANGED <<registry, ov_idr, last, configfs>>

ConcNext ==
    \E p \in Procs :
        \/ CStoreEnter(p)
        \/ CStoreFree(p)
        \/ CStoreNull(p)
        \/ CStoreDup(p)
        \/ CStoreSize(p)
        \/ CStatusEnter(p)
        \/ CRelease(p)
        \/ CRelClear(p)
        \/ CUnflatten(p)
        \/ CResolve(p)
        \/ CCreate(p)
        \/ CSetId(p)

SpecConc == ConcInit /\ [][ConcNext]_vars

AllDone == \A p \in Procs : proc[p].pc = "done"

\* C14: when a dtbo_store and an enabling status_store run at the same time
\* on one item, the item does not end up Applied while its blob has been
\* freed or replaced by a blob other than the one that was applied.
C14_StoreAndApplyConsistent ==
    (AllDone /\ {proc[p].op : p \in Procs} = {"store", "enable"} /\ Applied(Item)) =>
        /\ ~Item.dtbo.null
        /\ Item.dtbo.data = ov_idr[Item.id].tree

\* C19: two status_store handlers running at the same time on one item never
\* both call of_overlay_create for it, and never both call
\* of_overlay_destroy for the same id.
C19_StatusStoresExclusive ==
    \A p \in Procs : \A q \in Procs \ {p} :
        /\ ~(proc[p].called = "create" /\ proc[q].called = "create")
        /\ ~(proc[p].called = "destroy" /\ proc[q].called = "destroy"
             /\ proc[p].arg = proc[q].arg)

====
